---- MODULE Spec2Model ----
(***************************************************************************)
(* The corrections module of apps.panel: the resolution engine             *)
(* (apply_correction), the review view (resolution_edit), the save/delete  *)
(* signals of CorrectObject and the four tables they work on.              *)
(*                                                                         *)
(* Every handler is a pure operator from the store before the call to the  *)
(* set of outcomes it can have (the store after it, what it returned, the  *)
(* path it took); an action picks the inputs and one outcome.  A handler   *)
(* that raises leaves the store as it was: apply_correction runs under     *)
(* transaction.atomic.                                                     *)
(*                                                                         *)
(* Python values: None is 0 where an id is expected (ids start at 1) and   *)
(* the string "None" for external_id; a dict is a record, a ContextElement *)
(* object is the tuple of its constructor arguments, a list is a sequence. *)
(* Weights and scores are floats in the code and integers here; the values *)
(* of the model are one-letter strings, for which the similarity is 0 or 1.*)
(* Timestamps are kept up to their order: the code only compares them.     *)
(***************************************************************************)
EXTENDS Integers, Sequences, FiniteSets, TLC

VARIABLES scopes, occurrences, correct_objects, resolutions, next_id, last, inflight, probe

vars == <<scopes, occurrences, correct_objects, resolutions, next_id, last, inflight, probe>>

-----------------------------------------------------------------------------
(* Bounds of the model *)

MaxScopes == 2
MaxOccurrences == 2
MaxCorrectObjects == 2
MaxLen == 2
MaxCandidates == 3

-----------------------------------------------------------------------------
(* Python's None, and the mark of a call that ended in an exception *)

None == 0
NoneStr == "None"
Raised == -1

(* Resolution.Status, models.py *)
PENDING == 0
APPROVED == 1
INVALID == 9

-----------------------------------------------------------------------------
(* context.py: ContextElement, its dict form, and the match predicate *)

Get(data, k, default) == IF k \in DOMAIN data THEN data[k] ELSE default

ContextElement(key, value, important, weight, absence_allowed) ==
    <<key, value, important, weight, absence_allowed>>

Key(e) == e[1]
Val(e) == e[2]
Important(e) == e[3]
Weight(e) == e[4]
AbsenceAllowed(e) == e[5]

from_dict(data) ==
    ContextElement(Get(data, "key", ""), Get(data, "value", ""),
                   Get(data, "important", FALSE), Get(data, "weight", 1),
                   Get(data, "absence_allowed", FALSE))

(* to_dict writing the key and the value only *)
to_dict_brief(e) == [key |-> Key(e), value |-> Val(e)]

to_dict(e) ==
    [key |-> Key(e), value |-> Val(e), important |-> Important(e),
     weight |-> Weight(e), absence_allowed |-> AbsenceAllowed(e)]

parse_context_elements(context_data) ==
    [i \in 1..Len(context_data) |-> from_dict(context_data[i])]

to_dicts(elements) == [i \in 1..Len(elements) |-> to_dict(elements[i])]

(* {elem.key: ... for elem in elements}: a later element with the same key *)
(* overwrites an earlier one, so a key is looked up as its last element.   *)
DictIndex(elements, k) ==
    LET hits == {i \in 1..Len(elements) : Key(elements[i]) = k}
    IN  IF hits = {} THEN 0 ELSE CHOOSE i \in hits : \A j \in hits : j <= i

RECURSIVE MatchFrom(_, _, _, _)
MatchFrom(occurrence_context, required_elements, i, total_score) ==
    IF i > Len(required_elements) THEN <<TRUE, total_score>>
    ELSE LET required == required_elements[i]
             at == DictIndex(occurrence_context, Key(required))
         IN  IF at = 0
             THEN IF AbsenceAllowed(required)
                  THEN MatchFrom(occurrence_context, required_elements, i + 1, total_score)
                  ELSE <<FALSE, total_score>>
             ELSE IF Val(occurrence_context[at]) = Val(required)
                  THEN MatchFrom(occurrence_context, required_elements, i + 1,
                                 total_score + Weight(required))
                  ELSE IF Important(required)
                       THEN <<FALSE, total_score>>
                       ELSE MatchFrom(occurrence_context, required_elements, i + 1,
                                      total_score)

check_context_match(occurrence_context, required_elements) ==
    MatchFrom(occurrence_context, required_elements, 1, 0)

-----------------------------------------------------------------------------
(* The store: the four tables, the id sequences and the clock.             *)

DB == [scopes |-> scopes, occurrences |-> occurrences,
       correct_objects |-> correct_objects, resolutions |-> resolutions,
       next_id |-> next_id]

Max(S) == IF S = {} THEN 0 ELSE CHOOSE x \in S : \A y \in S : y <= x

Stamps(db) == {s.updated_at : s \in db.scopes} \cup {o.updated_at : o \in db.occurrences}

(* timezone.now(): later than every timestamp stored so far *)
Now(db) == Max(Stamps(db)) + 1

Scope(db, id) == CHOOSE s \in db.scopes : s.id = id
Occurrence(db, id) == CHOOSE o \in db.occurrences : o.id = id
CorrectObject(db, id) == CHOOSE c \in db.correct_objects : c.id = id

Ids(rows) == {r.id : r \in rows}

RECURSIVE Sorted(_)
Sorted(S) ==
    IF S = {} THEN <<>>
    ELSE LET m == CHOOSE x \in S : \A y \in S : x <= y
         IN  <<m>> \o Sorted(S \ {m})

-----------------------------------------------------------------------------
(* cache.py and signals.py *)

(* An Occurrence instance holds the fields it was loaded with; its scope   *)
(* is a lazy foreign key, read from the store when it is first used.       *)
is_cache_valid(db, occurrence) ==
    IF occurrence.resolved_to = None THEN FALSE
    ELSE occurrence.updated_at >= Scope(db, occurrence.scope).updated_at

invalidate_cache_for_scope(db, scope_id) ==
    LET now == Now(db)
    IN  [db EXCEPT !.occurrences =
            {IF o.scope = scope_id THEN [o EXCEPT !.updated_at = now] ELSE o
                : o \in db.occurrences}]

(* post_save and post_delete of CorrectObject do the same two writes *)
update_scope_on_correct_object_save(db, scope_id) ==
    LET now == Now(db)
        bumped == [db EXCEPT !.scopes =
                     {IF s.id = scope_id THEN [s EXCEPT !.updated_at = now] ELSE s
                         : s \in db.scopes}]
    IN  invalidate_cache_for_scope(bumped, scope_id)

-----------------------------------------------------------------------------
(* models.py: the constraints of the tables *)

(* The table without occurrences_value_context_unique *)
OccurrenceUnique_absent(db, value, context_dicts) == TRUE

(* occurrences_value_context_unique: (value, context), over all scopes *)
OccurrenceUnique(db, value, context_dicts) ==
    ~\E o \in db.occurrences : o.value = value /\ o.context = context_dicts

(* external_id unique=True, and correct_objects_value_context_unique:      *)
(* (value, required_context_elements) among the rows without external_id,  *)
(* both over all scopes. `except` is the id of the row being saved.         *)
CorrectObjectUnique(db, except, external_id, value, required_context_dicts) ==
    ~\E c \in db.correct_objects :
        /\ c.id # except
        /\ IF external_id # NoneStr
           THEN c.external_id = external_id
           ELSE /\ c.external_id = NoneStr
                /\ c.value = value
                /\ c.required_context_elements = required_context_dicts

(* A Resolution row is identified by its pair (occurrence, correct_object), *)
(* which resolutions_occurrence_correct_object_unique makes unique.        *)
SameRow(r, q) == r.occurrence = q.occurrence /\ r.correct_object = q.correct_object

(* Resolution.clean: at most one APPROVED per occurrence *)
ResolutionClean(db, resolution) ==
    resolution.status = APPROVED =>
        ~\E r \in db.resolutions :
            /\ r.occurrence = resolution.occurrence
            /\ r.status = APPROVED
            /\ ~SameRow(r, resolution)

-----------------------------------------------------------------------------
(* correct_object.py *)

(* find_or_create_correct_object writing the call's value and required    *)
(* context to the object it finds by external_id                           *)
find_or_create_correct_object_upsert(db, value, scope_id, external_id, required_context_elements) ==
    LET required_context_dicts == to_dicts(required_context_elements)
        by_external == {c \in db.correct_objects :
                            c.external_id = external_id /\ c.scope = scope_id}
        id == db.next_id.correct_object
        row == [id |-> id, external_id |-> external_id, value |-> value,
                required_context_elements |-> required_context_dicts,
                scope |-> scope_id]
        inserted == [db EXCEPT !.correct_objects = @ \cup {row},
                               !.next_id.correct_object = id + 1]
        written == [db EXCEPT !.correct_objects =
                       {IF c \in by_external
                        THEN [c EXCEPT !.value = value,
                                       !.required_context_elements = required_context_dicts]
                        ELSE c : c \in @}]
    IN  IF external_id # NoneStr /\ by_external # {}
        THEN [db |-> update_scope_on_correct_object_save(written, scope_id),
              obj |-> (CHOOSE c \in by_external : TRUE).id, raised |-> FALSE]
        ELSE IF ~CorrectObjectUnique(db, None, external_id, value, required_context_dicts)
        THEN [db |-> db, obj |-> None, raised |-> TRUE]
        ELSE [db |-> update_scope_on_correct_object_save(inserted, scope_id),
              obj |-> id, raised |-> FALSE]

(* The result: the store after the call, the object's id (obj), whether    *)
(* the insert raised IntegrityError (raised).                              *)
find_or_create_correct_object(db, value, scope_id, external_id, required_context_elements) ==
    LET required_context_dicts == to_dicts(required_context_elements)
        by_external == {c \in db.correct_objects :
                            c.external_id = external_id /\ c.scope = scope_id}
        by_value == {c \in db.correct_objects :
                         /\ c.value = value
                         /\ c.required_context_elements = required_context_dicts
                         /\ c.scope = scope_id
                         /\ c.external_id = NoneStr}
        id == db.next_id.correct_object
        row == [id |-> id, external_id |-> external_id, value |-> value,
                required_context_elements |-> required_context_dicts,
                scope |-> scope_id]
        inserted == [db EXCEPT !.correct_objects = @ \cup {row},
                               !.next_id.correct_object = id + 1]
    IN  IF external_id # NoneStr /\ by_external # {}
        THEN [db |-> db, obj |-> (CHOOSE c \in by_external : TRUE).id, raised |-> FALSE]
        ELSE IF by_value # {}
        THEN [db |-> db, obj |-> (CHOOSE c \in by_value : TRUE).id, raised |-> FALSE]
        ELSE IF ~CorrectObjectUnique(db, None, external_id, value, required_context_dicts)
        THEN [db |-> db, obj |-> None, raised |-> TRUE]
        ELSE [db |-> update_scope_on_correct_object_save(inserted, scope_id),
              obj |-> id, raised |-> FALSE]

-----------------------------------------------------------------------------
(* resolution.py *)

(* auto_now of Resolution.updated_at: later than the updated_at of every   *)
(* Resolution stored so far. The timestamps of Resolutions are compared    *)
(* with one another only.                                                  *)
ResolutionNow(db) == Max({r.updated_at : r \in db.resolutions}) + 1

(* create_resolution as an upsert: the score, manual and status of the     *)
(* call are written to the row it finds                                    *)
create_resolution_overwriting(db, occurrence, correct_object_id, score, manual, status) ==
    LET found == {r \in db.resolutions :
                      r.occurrence = occurrence.id /\ r.correct_object = correct_object_id}
        row == [id |-> Max(Ids(db.resolutions)) + 1,
                occurrence |-> occurrence.id, correct_object |-> correct_object_id,
                manual |-> manual, status |-> status, score |-> score,
                scope |-> occurrence.scope, updated_at |-> ResolutionNow(db)]
    IN  [db |-> [db EXCEPT !.resolutions = (@ \ found) \cup {row}], res |-> row]

(* create_resolution writing the score of the call to the row it finds    *)
create_resolution_rescoring(db, occurrence, correct_object_id, score, manual, status) ==
    LET found == {r \in db.resolutions :
                      r.occurrence = occurrence.id /\ r.correct_object = correct_object_id}
        row == [id |-> Max(Ids(db.resolutions)) + 1,
                occurrence |-> occurrence.id, correct_object |-> correct_object_id,
                manual |-> manual, status |-> status, score |-> score,
                scope |-> occurrence.scope, updated_at |-> ResolutionNow(db)]
        rescored == {[r EXCEPT !.score = score] : r \in found}
    IN  IF found # {}
        THEN [db |-> [db EXCEPT !.resolutions = (@ \ found) \cup rescored],
              res |-> CHOOSE r \in rescored : TRUE]
        ELSE [db |-> [db EXCEPT !.resolutions = @ \cup {row}], res |-> row]

(* Resolution.objects.get_or_create(occurrence, correct_object, defaults)  *)
create_resolution(db, occurrence, correct_object_id, score, manual, status) ==
    LET found == {r \in db.resolutions :
                      r.occurrence = occurrence.id /\ r.correct_object = correct_object_id}
        row == [id |-> Max(Ids(db.resolutions)) + 1,
                occurrence |-> occurrence.id, correct_object |-> correct_object_id,
                manual |-> manual, status |-> status, score |-> score,
                scope |-> occurrence.scope, updated_at |-> ResolutionNow(db)]
    IN  IF found # {} THEN [db |-> db, res |-> CHOOSE r \in found : TRUE]
        ELSE [db |-> [db EXCEPT !.resolutions = @ \cup {row}], res |-> row]

(* get_best_resolution with the status filter of the second query left    *)
(* out: the best row among those that are not approved                     *)
get_best_resolution_unfiltered(db, occurrence_id) ==
    LET approved == {r \in db.resolutions :
                         r.occurrence = occurrence_id /\ r.status = APPROVED}
        others == {r \in db.resolutions :
                       r.occurrence = occurrence_id /\ r.status # APPROVED}
    IN  IF approved # {} THEN approved
        ELSE {r \in others : \A q \in others : q.score <= r.score}

(* The rows get_best_resolution can return; {} stands for None.           *)
(* order_by("-score").first() leaves the order among equal scores to the   *)
(* database.                                                               *)
get_best_resolution(db, occurrence_id) ==
    LET approved == {r \in db.resolutions :
                         r.occurrence = occurrence_id /\ r.status = APPROVED}
        pending == {r \in db.resolutions :
                        r.occurrence = occurrence_id /\ r.status = PENDING}
    IN  IF approved # {} THEN approved
        ELSE {r \in pending : \A q \in pending : q.score <= r.score}

(* update_resolution_cache saving updated_at only *)
update_resolution_cache_stamp_only(db, occurrence, resolution) ==
    LET now == Now(db)
    IN  [db EXCEPT !.occurrences =
            {IF o.id = occurrence.id THEN [o EXCEPT !.updated_at = now] ELSE o
                : o \in db.occurrences}]

update_resolution_cache(db, occurrence, resolution) ==
    LET now == Now(db)
    IN  [db EXCEPT !.occurrences =
            {IF o.id = occurrence.id
             THEN [o EXCEPT !.resolved_to = resolution.correct_object,
                            !.updated_at = now]
             ELSE o : o \in db.occurrences}]

-----------------------------------------------------------------------------
(* selectors.py *)

(* The rows of the queryset get_conflicting_resolutions returns *)
get_conflicting_resolutions(db, scope_id) ==
    LET pending == {r \in db.resolutions : r.scope = scope_id /\ r.status = PENDING}
        occurrences_with_multiple_pending ==
            {o \in {r.occurrence : r \in pending} :
                Cardinality({r \in pending : r.occurrence = o}) > 1}
    IN  {r \in db.resolutions :
            r.occurrence \in occurrences_with_multiple_pending /\ r.status = PENDING}

-----------------------------------------------------------------------------
(* apply_correction.py *)

(* The coverage test of _find_or_create_occurrence: every element of the   *)
(* candidate is in existing_dict with the same value.                      *)
Covers(existing_context, context) ==
    \A i \in 1..Len(context) :
        LET at == DictIndex(existing_context, Key(context[i]))
        IN  at # 0 /\ Val(existing_context[at]) = Val(context[i])

(* The outcomes of the intake: the queryset is unordered, so the loop may  *)
(* meet any of the covering rows first. The instance returned holds the    *)
(* row's fields as of now.                                                 *)
covering_occurrences(db, value, context, scope_id) ==
    LET existing == {o \in db.occurrences : o.value = value /\ o.scope = scope_id}
    IN  {o \in existing : Covers(parse_context_elements(o.context), context)}

(* The loop returned the row occ *)
found_occurrence(db, occ) ==
    [db |-> db, occurrence |-> occ, created |-> FALSE, raised |-> FALSE]

(* Occurrence.objects.create: the insert, or IntegrityError *)
create_occurrence(db, value, context, scope_id) ==
    LET context_dicts == to_dicts(context)
        row == [id |-> Max(Ids(db.occurrences)) + 1, value |-> value,
                context |-> context_dicts, scope |-> scope_id,
                updated_at |-> Now(db), resolved_to |-> None]
    IN  IF ~OccurrenceUnique(db, value, context_dicts)
        THEN [db |-> db, occurrence |-> row, created |-> FALSE, raised |-> TRUE]
        ELSE [db |-> [db EXCEPT !.occurrences = @ \cup {row}], occurrence |-> row,
              created |-> TRUE, raised |-> FALSE]

find_or_create_occurrence(db, value, context, scope_id) ==
    LET covering == covering_occurrences(db, value, context, scope_id)
    IN  IF covering # {}
        THEN {found_occurrence(db, occ) : occ \in covering}
        ELSE {create_occurrence(db, value, context, scope_id)}

(* rapidfuzz's JaroWinkler.normalized_similarity, for two different strings *)
(* of one letter: they share no character, so it is 0.                      *)
JaroWinkler_normalized_similarity(value1, value2) == 0

calculate_value_similarity(value1, value2) ==
    IF value1 = value2 THEN 1 ELSE JaroWinkler_normalized_similarity(value1, value2)

calculate_resolution_score(occurrence, correct_object) ==
    LET value_score == 10 * calculate_value_similarity(occurrence.value, correct_object.value)
        occurrence_context == parse_context_elements(occurrence.context)
        required_elements == parse_context_elements(correct_object.required_context_elements)
    IN  value_score + check_context_match(occurrence_context, required_elements)[2]

(* get_or_create for every scope_id: a scope that is missing is created    *)
get_or_create_default_scope_lenient(db, scope_id) ==
    LET id == IF scope_id = 0 THEN 1 ELSE scope_id
    IN  IF id \in Ids(db.scopes) THEN [db |-> db, scope |-> id]
        ELSE [db |-> [db EXCEPT !.scopes = @ \cup {[id |-> id, updated_at |-> Now(db)]}],
              scope |-> id]

(* scope 0 stands for the default Scope, id 1; None when Scope.DoesNotExist *)
get_or_create_default_scope(db, scope_id) ==
    IF scope_id = 0
    THEN IF 1 \in Ids(db.scopes) THEN [db |-> db, scope |-> 1]
         ELSE [db |-> [db EXCEPT !.scopes = @ \cup {[id |-> 1, updated_at |-> Now(db)]}],
               scope |-> 1]
    ELSE IF scope_id \in Ids(db.scopes) THEN [db |-> db, scope |-> scope_id]
         ELSE [db |-> db, scope |-> None]

(* step 0.5 left out: no hypothesis is looked up or stored *)
HypothesesFrom_skipped(db, hypotheses, i, scope_id) ==
    [db |-> db, objs |-> <<>>, raised |-> FALSE]

(* step 0.5: the hypotheses, in order *)
RECURSIVE HypothesesFrom(_, _, _, _)
HypothesesFrom(db, hypotheses, i, scope_id) ==
    IF i > Len(hypotheses)
    THEN [db |-> db, objs |-> <<>>, raised |-> FALSE]
    ELSE LET hyp_data == hypotheses[i]
             hyp_required ==
                 parse_context_elements(Get(hyp_data, "required_context_elements", <<>>))
             hyp == find_or_create_correct_object(
                        db, Get(hyp_data, "value", ""), scope_id,
                        Get(hyp_data, "external_id", NoneStr), hyp_required)
         IN  IF hyp.raised THEN [db |-> db, objs |-> <<>>, raised |-> TRUE]
             ELSE LET rest == HypothesesFrom(hyp.db, hypotheses, i + 1, scope_id)
                  IN  [rest EXCEPT !.objs = <<hyp.obj>> \o @]

(* The candidates taken from every scope *)
UniqueCorrectObjects_all_scopes(db, scope_id, hypothesis_objects) ==
    Sorted(Ids(db.correct_objects))

(* The candidates of step 2: by id, each once *)
UniqueCorrectObjects(db, scope_id, hypothesis_objects) ==
    Sorted({c.id : c \in {x \in db.correct_objects : x.scope = scope_id}}
           \cup {hypothesis_objects[i] : i \in 1..Len(hypothesis_objects)})

(* step 2: the scoring loop; keep is the set of the correct objects of     *)
(* new_resolutions                                                         *)
RECURSIVE ScoreFrom(_, _, _, _, _)
ScoreFrom(db, occurrence, occurrence_context, candidates, i) ==
    IF i > Len(candidates) THEN [db |-> db, keep |-> {}]
    ELSE LET correct_object == CorrectObject(db, candidates[i])
             required_elements ==
                 parse_context_elements(correct_object.required_context_elements)
             matches == check_context_match(occurrence_context, required_elements)[1]
             existing_invalid ==
                 \E r \in db.resolutions :
                     /\ r.occurrence = occurrence.id
                     /\ r.correct_object = correct_object.id
                     /\ r.status = INVALID
         IN  IF matches /\ ~existing_invalid
             THEN LET made == create_resolution(
                                  db, occurrence, correct_object.id,
                                  calculate_resolution_score(occurrence, correct_object),
                                  FALSE, PENDING)
                      rest == ScoreFrom(made.db, occurrence, occurrence_context,
                                        candidates, i + 1)
                  IN  [db |-> rest.db, keep |-> {correct_object.id} \cup rest.keep]
             ELSE ScoreFrom(db, occurrence, occurrence_context, candidates, i + 1)

(* The pruning step without the exclusion of the manual INVALID rows *)
ToDelete_no_exclusion(db, occurrence, keep) ==
    {r \in db.resolutions :
        /\ r.occurrence = occurrence.id
        /\ r.status \in {PENDING, INVALID}
        /\ r.correct_object \notin keep}

(* The rows the pruning step deletes *)
ToDelete(db, occurrence, keep) ==
    {r \in db.resolutions :
        /\ r.occurrence = occurrence.id
        /\ r.status \in {PENDING, INVALID}
        /\ r.correct_object \notin keep
        /\ ~(r.manual /\ r.status = INVALID)}

(* The call without its pruning step *)
PruneStale_skipped(db, occurrence, keep) == db

PruneStale(db, occurrence, keep) ==
    IF keep # {} THEN [db EXCEPT !.resolutions = @ \ ToDelete(db, occurrence, keep)]
    ELSE db

(* What a call did: the store it leaves, what it returned (a CorrectObject *)
(* id, None, or Raised when it ended in an exception), the occurrence it   *)
(* worked on, the return statement it left through, whether the intake     *)
(* found or created the occurrence, and the keep set of the pruning step.  *)
Outcome(db, ret, occ, path, intake, keep) ==
    [db |-> db, ret |-> ret, occ |-> occ, path |-> path, intake |-> intake,
     keep |-> keep]

(* transaction.atomic: an exception rolls the store back to db0; `at` is   *)
(* the step that raised                                                    *)
RaisedOutcome(db0, at) == Outcome(db0, Raised, None, at, "none", {})

(* step 1 with a cache refresh added to it *)
ReturnApproved_refreshing(db, occurrence, approved, intake) ==
    {Outcome(update_resolution_cache(db, occurrence, approved_resolution),
             approved_resolution.correct_object, occurrence.id, "approved", intake, {})
        : approved_resolution \in approved}

(* step 1: the approved row's CorrectObject is returned, nothing is written *)
ReturnApproved(db, occurrence, approved, intake) ==
    {Outcome(db, approved_resolution.correct_object, occurrence.id, "approved", intake, {})
        : approved_resolution \in approved}

(* step 4 without the test of direct_invalid *)
Synthesize_unvetoed(db0, db, occurrence, occurrence_context, scope_id, intake, keep) ==
    LET important_context == SelectSeq(occurrence_context, Important)
        made == find_or_create_correct_object(db, occurrence.value, scope_id, NoneStr,
                                              important_context)
        resolution == create_resolution(
                          made.db, occurrence, made.obj,
                          calculate_resolution_score(occurrence,
                                                     CorrectObject(made.db, made.obj)),
                          FALSE, PENDING)
    IN  IF made.raised THEN {RaisedOutcome(db0, "raised in synthesis")}
        ELSE {Outcome(update_resolution_cache(resolution.db, occurrence, resolution.res),
                      made.obj, occurrence.id, "synthesis", intake, keep)}

(* step 4: a new CorrectObject made from the occurrence *)
Synthesize(db0, db, occurrence, occurrence_context, scope_id, intake, keep) ==
    LET important_context == SelectSeq(occurrence_context, Important)
        direct_invalid ==
            \E r \in db.resolutions :
                /\ r.occurrence = occurrence.id
                /\ r.status = INVALID
                /\ CorrectObject(db, r.correct_object).value = occurrence.value
                /\ CorrectObject(db, r.correct_object).required_context_elements
                       = to_dicts(important_context)
        made == find_or_create_correct_object(db, occurrence.value, scope_id, NoneStr,
                                              important_context)
        resolution == create_resolution(
                          made.db, occurrence, made.obj,
                          calculate_resolution_score(occurrence,
                                                     CorrectObject(made.db, made.obj)),
                          FALSE, PENDING)
    IN  IF direct_invalid
        THEN {Outcome(db, None, occurrence.id, "veto", intake, keep)}
        ELSE IF made.raised THEN {RaisedOutcome(db0, "raised in synthesis")}
        ELSE {Outcome(update_resolution_cache(resolution.db, occurrence, resolution.res),
                      made.obj, occurrence.id, "synthesis", intake, keep)}

(* steps 1 to 3: the approved row, the cache, scoring, pruning, the winner *)
Resolve(db0, db, occurrence, occurrence_context, scope_id, hypothesis_objects, intake) ==
    LET approved == {r \in db.resolutions :
                         r.occurrence = occurrence.id /\ r.status = APPROVED}
        scored == ScoreFrom(db, occurrence, occurrence_context,
                            UniqueCorrectObjects(db, scope_id, hypothesis_objects), 1)
        pruned == PruneStale(scored.db, occurrence, scored.keep)
        best == get_best_resolution(pruned, occurrence.id)
    IN  IF approved # {}
        THEN ReturnApproved(db, occurrence, approved, intake)
        ELSE IF is_cache_valid(db, occurrence) /\ occurrence.resolved_to # None
        THEN {Outcome(db, occurrence.resolved_to, occurrence.id, "cache", intake, {})}
        ELSE IF best # {}
        THEN {Outcome(update_resolution_cache(pruned, occurrence, best_resolution),
                      best_resolution.correct_object, occurrence.id, "winner",
                      intake, scored.keep) : best_resolution \in best}
        ELSE Synthesize(db0, pruned, occurrence, occurrence_context, scope_id,
                        intake, scored.keep)

(* steps 0.5 onwards outside a transaction: what was written before an    *)
(* exception stays written                                                 *)
AfterIntake_autocommit(db0, found, occurrence_context, scope_id, hypotheses) ==
    LET hyps == HypothesesFrom(found.db, hypotheses, 1, scope_id)
    IN  IF found.raised THEN {RaisedOutcome(found.db, "raised in intake")}
        ELSE IF hyps.raised THEN {RaisedOutcome(found.db, "raised in hypotheses")}
        ELSE Resolve(hyps.db, hyps.db, found.occurrence, occurrence_context, scope_id,
                     hyps.objs, IF found.created THEN "created" ELSE "found")

(* steps 0.5 onwards, for one outcome of the intake *)
AfterIntake(db0, found, occurrence_context, scope_id, hypotheses) ==
    LET hyps == HypothesesFrom(found.db, hypotheses, 1, scope_id)
    IN  IF found.raised THEN {RaisedOutcome(db0, "raised in intake")}
        ELSE IF hyps.raised THEN {RaisedOutcome(db0, "raised in hypotheses")}
        ELSE Resolve(db0, hyps.db, found.occurrence, occurrence_context, scope_id,
                     hyps.objs, IF found.created THEN "created" ELSE "found")

(* The outcomes of apply_correction(value, context, scope_id, hypotheses)  *)
apply_correction(db, value, context, scope_id, hypotheses) ==
    LET scope == get_or_create_default_scope(db, scope_id)
        occurrence_context == parse_context_elements(context)
    IN  IF scope.scope = None THEN {RaisedOutcome(db, "raised for the scope")}
        ELSE UNION {AfterIntake(db, found, occurrence_context, scope.scope, hypotheses)
                       : found \in find_or_create_occurrence(scope.db, value,
                                                             occurrence_context,
                                                             scope.scope)}

-----------------------------------------------------------------------------
(* views/corrections.py: resolution_edit, POST *)

(* super().save(): the instance's fields are written to its row, with     *)
(* updated_at set by auto_now                                              *)
WriteResolution(db, resolution) ==
    [db EXCEPT !.resolutions =
        {IF SameRow(r, resolution)
         THEN [resolution EXCEPT !.id = r.id, !.updated_at = ResolutionNow(db)]
         ELSE r : r \in @}]

(* resolution.save(): full_clean, then the row is written *)
SaveResolution(db, resolution) ==
    IF ResolutionClean(db, resolution) THEN WriteResolution(db, resolution) ELSE db

(* The view without the update of the other APPROVED rows *)
DemoteOthers_skipped(db, resolution) == db

(* The other APPROVED rows of the occurrence go back to PENDING *)
DemoteOthers(db, resolution) ==
    [db EXCEPT !.resolutions =
        {IF r.occurrence = resolution.occurrence /\ r.status = APPROVED
            /\ ~SameRow(r, resolution)
         THEN [r EXCEPT !.status = PENDING] ELSE r : r \in @}]

(* The view writing the status straight to the row: no demotion of the    *)
(* other APPROVED rows, no full_clean                                      *)
resolution_edit_unchecked(db, resolution, action, new_status) ==
    IF action = "delete" THEN [db EXCEPT !.resolutions = @ \ {resolution}]
    ELSE [db EXCEPT !.resolutions =
             {IF SameRow(r, resolution)
              THEN [resolution EXCEPT !.status = new_status, !.manual = TRUE,
                                      !.updated_at = ResolutionNow(db)]
              ELSE r : r \in @}]

resolution_edit(db, resolution, action, new_status) ==
        CASE action = "approve" ->
                 SaveResolution(DemoteOthers(db, resolution),
                                [resolution EXCEPT !.status = APPROVED, !.manual = TRUE])
          [] action = "invalidate" ->
                 SaveResolution(db, [resolution EXCEPT !.status = INVALID, !.manual = TRUE])
          [] action = "delete" ->
                 [db EXCEPT !.resolutions = @ \ {resolution}]
          [] action = "change_status" ->
                 SaveResolution(IF new_status = APPROVED
                                THEN DemoteOthers(db, resolution) ELSE db,
                                [resolution EXCEPT !.status = new_status, !.manual = TRUE])

-----------------------------------------------------------------------------
(* admin.py: CorrectObjectAdmin changes and deletes rows, ScopeAdmin adds  *)
(* scopes.                                                                 *)

(* The change form validates the constraints before it saves *)
admin_change_correct_object(db, id, required_context_dicts) ==
    LET c == CorrectObject(db, id)
        saved == [db EXCEPT !.correct_objects =
                     {IF x.id = id
                      THEN [x EXCEPT !.required_context_elements = required_context_dicts]
                      ELSE x : x \in @}]
    IN  IF CorrectObjectUnique(db, id, c.external_id, c.value, required_context_dicts)
        THEN update_scope_on_correct_object_save(saved, c.scope)
        ELSE db

update_scope_on_correct_object_delete(db, scope_id) ==
    LET now == Now(db)
        bumped == [db EXCEPT !.scopes =
                     {IF s.id = scope_id THEN [s EXCEPT !.updated_at = now] ELSE s
                         : s \in db.scopes}]
    IN  invalidate_cache_for_scope(bumped, scope_id)

(* resolved_to left as it is when its CorrectObject is deleted *)
SetNull_skipped(rows, id) == rows

(* on_delete: Resolution.correct_object CASCADE, Occurrence.resolved_to    *)
(* SET_NULL                                                                *)
SetNull(rows, id) ==
    {IF o.resolved_to = id THEN [o EXCEPT !.resolved_to = None] ELSE o : o \in rows}

admin_delete_correct_object(db, id) ==
    LET c == CorrectObject(db, id)
        deleted == [db EXCEPT !.occurrences = SetNull(@, id),
                              !.resolutions = {r \in @ : r.correct_object # id},
                              !.correct_objects = @ \ {c}]
    IN  update_scope_on_correct_object_delete(deleted, c.scope)

admin_add_scope(db) ==
    [db EXCEPT !.scopes = @ \cup {[id |-> Max(Ids(db.scopes)) + 1, updated_at |-> Now(db)]}]

-----------------------------------------------------------------------------
(* The inputs of the model *)

Values == {"a"}

(* context elements as they arrive: E2 leaves the optional keys out *)
E1 == [key |-> "k", value |-> "1", important |-> TRUE, weight |-> 1,
       absence_allowed |-> FALSE]
E2 == [key |-> "k", value |-> "2"]

(* <<E1, E2>> holds the key k twice *)
Contexts == {<<E1>>, <<E1, E2>>}

H2 == [value |-> "b", external_id |-> "x", required_context_elements |-> <<E2>>]

HypothesisLists == {<<>>, <<H2>>}

(* H2's external_id under another value *)
H3 == [value |-> "c", external_id |-> "x", required_context_elements |-> <<E2>>]

(* E3 and E5 are of another key; E4 is E1's key and value, not important;  *)
(* E5 carries a key that from_dict does not know and no weight             *)
E3 == [key |-> "m", value |-> "1", weight |-> 2, absence_allowed |-> TRUE]
E4 == [key |-> "k", value |-> "1", important |-> FALSE, weight |-> 2,
       absence_allowed |-> FALSE]
E5 == [key |-> "m", value |-> "2", important |-> TRUE, absence_allowed |-> TRUE,
       note |-> "x"]

ProbeDicts == {E1, E2, E3, E4, E5}

ProbeLists == UNION {[1..n -> ProbeDicts] : n \in 0..MaxLen}

(* Three candidates for one occurrence: H4 is H2 under another            *)
(* external_id, H6 has the occurrence's value and requires nothing         *)
H4 == [value |-> "b", external_id |-> "y", required_context_elements |-> <<E2>>]
H6 == [value |-> "a", external_id |-> "z", required_context_elements |-> <<>>]

CandidateLists == {<<H2>>, <<H4>>, <<H6>>}

(* A context that covers <<E1>> and holds one more key, and a hypothesis   *)
(* that requires another value of that key and allows its absence          *)
CoalescedContexts == {<<E1, E3>>, <<E1>>}

H7 == [value |-> "b", external_id |-> "x", required_context_elements |-> <<E5>>]

(* required_context_elements an administrator may give a CorrectObject *)
RequiredContexts == {to_dicts(parse_context_elements(<<E1>>))}

ScopeIds == {0, MaxScopes}

-----------------------------------------------------------------------------
(* The state machine *)

(* Timestamps up to order: each is replaced by its rank among those stored *)
Rank(db, t) == Cardinality({u \in Stamps(db) : u < t})

(* The id and the updated_at of a Resolution up to their order among the   *)
(* rows of its occurrence: no query compares them across occurrences       *)
RankIn(db, r) ==
    LET rows == {q \in db.resolutions : q.occurrence = r.occurrence}
    IN  [r EXCEPT !.id = Cardinality({q \in rows : q.id < r.id}),
                  !.updated_at = Cardinality({q.updated_at : q \in rows} \cap
                                             0..(r.updated_at - 1))]

Normalize(db) ==
    [db EXCEPT !.scopes = {[s EXCEPT !.updated_at = Rank(db, @)] : s \in @},
               !.occurrences = {[o EXCEPT !.updated_at = Rank(db, @)] : o \in @},
               !.resolutions = {RankIn(db, r) : r \in @}]

Commit(db, did) ==
    LET n == Normalize(db)
    IN  /\ scopes' = n.scopes
        /\ occurrences' = n.occurrences
        /\ correct_objects' = n.correct_objects
        /\ resolutions' = n.resolutions
        /\ next_id' = n.next_id
        /\ last' = did

(* The requests that run concurrently, step by step: each caller is idle,  *)
(* or in a review request (kind "approve") holding the Resolution instance *)
(* it loaded, or in an apply_correction call (kind "apply") holding its    *)
(* arguments and the covering rows its lookup found.                       *)
Callers == {1, 2}

Idle == [kind |-> "none", pc |-> "idle", instance |-> {}, args |-> {}, hits |-> {},
         ret |-> None, failed |-> FALSE]

(* The functions of context.py and the scoring loop tried on lists of     *)
(* their own: stored is the context of an occurrence, given the list it is *)
(* compared with (the required elements of a candidate, or the context of  *)
(* an input), value and candidate the values of the two.                   *)
NoProbe == [did |-> "none", stored |-> <<>>, given |-> <<>>, value |-> "",
            candidate |-> "", result |-> <<>>]

Did(op) == [op |-> op, ret |-> None, occ |-> None, path |-> "none",
            intake |-> "none", keep |-> {}, hypotheses |-> 0]

Init ==
    /\ scopes = {}
    /\ occurrences = {}
    /\ correct_objects = {}
    /\ resolutions = {}
    /\ next_id = [correct_object |-> 1]
    /\ last = Did("init")
    /\ inflight = [c \in Callers |-> Idle]
    /\ probe = NoProbe

AddScope ==
    /\ Cardinality(scopes) < MaxScopes
    /\ Commit(admin_add_scope(DB), Did("other"))
    /\ UNCHANGED <<inflight, probe>>

ApplyCorrection ==
    \E value \in Values, context \in Contexts, scope_id \in ScopeIds,
       hypotheses \in HypothesisLists :
        \E out \in apply_correction(DB, value, context, scope_id, hypotheses) :
            /\ Cardinality(out.db.occurrences) <= MaxOccurrences
            /\ out.db.next_id.correct_object <= MaxCorrectObjects + 1
            /\ Commit(out.db, [op |-> "apply_correction", ret |-> out.ret,
                               occ |-> out.occ, path |-> out.path,
                               intake |-> out.intake, keep |-> out.keep,
                               hypotheses |-> Len(hypotheses)])
            /\ UNCHANGED <<inflight, probe>>

Approve ==
    \E r \in resolutions :
        /\ Commit(resolution_edit(DB, r, "approve", APPROVED), Did("other"))
        /\ UNCHANGED <<inflight, probe>>

Invalidate ==
    \E r \in resolutions :
        /\ Commit(resolution_edit(DB, r, "invalidate", INVALID), Did("other"))
        /\ UNCHANGED <<inflight, probe>>

Delete ==
    \E r \in resolutions :
        /\ Commit(resolution_edit(DB, r, "delete", PENDING), Did("other"))
        /\ UNCHANGED <<inflight, probe>>

ChangeStatus ==
    \E r \in resolutions, new_status \in {PENDING, APPROVED, INVALID} :
        /\ Commit(resolution_edit(DB, r, "change_status", new_status), Did("other"))
        /\ UNCHANGED <<inflight, probe>>

ChangeCorrectObject ==
    \E c \in correct_objects, required \in RequiredContexts :
        /\ required # c.required_context_elements
        /\ Commit(admin_change_correct_object(DB, c.id, required), Did("other"))
        /\ UNCHANGED <<inflight, probe>>

DeleteCorrectObject ==
    \E c \in correct_objects :
        /\ Commit(admin_delete_correct_object(DB, c.id), Did("other"))
        /\ UNCHANGED <<inflight, probe>>

Next ==
    \/ AddScope
    \/ ApplyCorrection
    \/ Approve
    \/ Invalidate
    \/ Delete
    \/ ChangeStatus
    \/ ChangeCorrectObject
    \/ DeleteCorrectObject

Spec == Init /\ [][Next]_vars

-----------------------------------------------------------------------------
(* Two callers at once. Neither resolution_edit nor the intake of          *)
(* apply_correction takes a lock, so the statements of two requests        *)
(* interleave: each statement is a step.                                   *)

SetCaller(c, call) == inflight' = [inflight EXCEPT ![c] = call] /\ UNCHANGED probe

StoreUnchanged == UNCHANGED <<scopes, occurrences, correct_objects, resolutions, next_id, last>>

(* Before the concurrent calls: scopes are added and apply_correction is   *)
(* called, one call after another                                          *)
SetUp ==
    /\ \A c \in Callers : inflight[c].pc = "idle"
    /\ (AddScope \/ ApplyCorrection)

(* resolution_edit: get_object_or_404 loads the instance *)
ReviewLoad(c) ==
    /\ inflight[c].pc = "idle"
    /\ \E r \in resolutions :
           SetCaller(c, [Idle EXCEPT !.kind = "approve", !.pc = "loaded",
                                     !.instance = {r}])
    /\ StoreUnchanged

(* action approve: the update of the other APPROVED rows *)
ReviewDemote(c) ==
    /\ inflight[c].kind = "approve"
    /\ inflight[c].pc = "loaded"
    /\ \E r \in inflight[c].instance : Commit(DemoteOthers(DB, r), last)
    /\ SetCaller(c, [inflight[c] EXCEPT !.pc = "demoted"])

(* resolution.save(): full_clean reads the other rows, ValidationError if  *)
(* one is APPROVED                                                         *)
ReviewClean(c) ==
    /\ inflight[c].kind = "approve"
    /\ inflight[c].pc = "demoted"
    /\ \E r \in inflight[c].instance :
           LET resolution == [r EXCEPT !.status = APPROVED, !.manual = TRUE]
           IN  IF ResolutionClean(DB, resolution)
               THEN SetCaller(c, [inflight[c] EXCEPT !.pc = "cleaned",
                                                     !.instance = {resolution}])
               ELSE SetCaller(c, [inflight[c] EXCEPT !.pc = "done", !.failed = TRUE,
                                                     !.ret = Raised])
    /\ StoreUnchanged

(* resolution.save(): the row is written *)
ReviewWrite(c) ==
    /\ inflight[c].kind = "approve"
    /\ inflight[c].pc = "cleaned"
    /\ \E resolution \in inflight[c].instance :
           /\ Commit(WriteResolution(DB, resolution), Did("other"))
           /\ SetCaller(c, [inflight[c] EXCEPT !.pc = "done",
                                               !.ret = resolution.correct_object])

(* apply_correction, in a scope that exists: the lookup of the intake *)
ApplyLookup(c) ==
    /\ inflight[c].pc = "idle"
    /\ \E value \in Values, context \in Contexts, scope_id \in ScopeIds,
          hypotheses \in HypothesisLists :
           LET scope == get_or_create_default_scope(DB, scope_id)
           IN  /\ scope.scope \in Ids(scopes)
               /\ SetCaller(c, [Idle EXCEPT
                      !.kind = "apply", !.pc = "looked up",
                      !.args = {<<value, context, scope.scope, hypotheses>>},
                      !.hits = covering_occurrences(DB, value,
                                                    parse_context_elements(context),
                                                    scope.scope)])
    /\ StoreUnchanged

(* apply_correction: the insert of the intake, if the lookup found no row, *)
(* and the rest of the call                                                *)
ApplyFinish(c) ==
    /\ inflight[c].kind = "apply"
    /\ inflight[c].pc = "looked up"
    /\ \E a \in inflight[c].args :
           LET occurrence_context == parse_context_elements(a[2])
               founds == IF inflight[c].hits # {}
                         THEN {found_occurrence(DB, occ) : occ \in inflight[c].hits}
                         ELSE {create_occurrence(DB, a[1], occurrence_context, a[3])}
           IN  \E found \in founds :
                   \E out \in AfterIntake(DB, found, occurrence_context, a[3], a[4]) :
                       /\ Cardinality(out.db.occurrences) <= MaxOccurrences
                       /\ out.db.next_id.correct_object <= MaxCorrectObjects + 1
                       /\ Commit(out.db, [op |-> "apply_correction", ret |-> out.ret,
                                          occ |-> out.occ, path |-> out.path,
                                          intake |-> out.intake, keep |-> out.keep,
                                          hypotheses |-> Len(a[4])])
                       /\ SetCaller(c, [inflight[c] EXCEPT !.pc = "done",
                                                           !.ret = out.ret,
                                                           !.failed = (out.ret = Raised)])

ConcurrentNext ==
    \/ SetUp
    \/ \E c \in Callers : ReviewLoad(c)
    \/ \E c \in Callers : ReviewDemote(c)
    \/ \E c \in Callers : ReviewClean(c)
    \/ \E c \in Callers : ReviewWrite(c)
    \/ \E c \in Callers : ApplyLookup(c)
    \/ \E c \in Callers : ApplyFinish(c)

SpecConcurrent == Init /\ [][ConcurrentNext]_vars

-----------------------------------------------------------------------------
(* One occurrence and its candidates: apply_correction is called for the   *)
(* value "a" and the context <<E1>> in the default scope, each call with   *)
(* one hypothesis, and the rows are reviewed.                              *)

OfferCandidate ==
    \E hypotheses \in CandidateLists :
        \E out \in apply_correction(DB, "a", <<E1>>, 0, hypotheses) :
            /\ out.db.next_id.correct_object <= MaxCandidates + 1
            /\ Commit(out.db, [op |-> "apply_correction", ret |-> out.ret,
                               occ |-> out.occ, path |-> out.path,
                               intake |-> out.intake, keep |-> out.keep,
                               hypotheses |-> Len(hypotheses)])
            /\ UNCHANGED <<inflight, probe>>

CandidatesNext ==
    \/ OfferCandidate
    \/ Approve
    \/ Invalidate
    \/ Delete
    \/ ChangeStatus

SpecCandidates == Init /\ [][CandidatesNext]_vars

-----------------------------------------------------------------------------
(* Inputs coalesced onto a stored occurrence with a richer context:        *)
(* apply_correction is called in the default scope with the context        *)
(* <<E1, E3>> and with <<E1>>, which the first covers, and the rows are    *)
(* reviewed.                                                               *)

ApplyCoalesced ==
    \E context \in CoalescedContexts, hypotheses \in {<<>>, <<H7>>} :
        \E out \in apply_correction(DB, "a", context, 0, hypotheses) :
            /\ Cardinality(out.db.occurrences) <= MaxOccurrences
            /\ out.db.next_id.correct_object <= MaxCorrectObjects + 1
            /\ Commit(out.db, [op |-> "apply_correction", ret |-> out.ret,
                               occ |-> out.occ, path |-> out.path,
                               intake |-> out.intake, keep |-> out.keep,
                               hypotheses |-> Len(hypotheses)])
            /\ UNCHANGED <<inflight, probe>>

CoalescedNext ==
    \/ ApplyCoalesced
    \/ Approve
    \/ Invalidate
    \/ Delete
    \/ ChangeStatus

SpecCoalesced == Init /\ [][CoalescedNext]_vars

-----------------------------------------------------------------------------
(* Corrections between changes of the requirements: the change form of a   *)
(* CorrectObject takes any list of elements, also one that the contexts    *)
(* already resolved to the object do not satisfy.                          *)

(* E1's key, another value, important *)
E6 == [key |-> "k", value |-> "2", important |-> TRUE]

ChangedRequirements == {to_dicts(parse_context_elements(<<E1>>)),
                        to_dicts(parse_context_elements(<<E6>>))}

ChangeRequirements ==
    \E c \in correct_objects, required \in ChangedRequirements :
        /\ required # c.required_context_elements
        /\ Commit(admin_change_correct_object(DB, c.id, required), Did("other"))
        /\ UNCHANGED <<inflight, probe>>

RequirementsNext ==
    \/ ApplyCorrection
    \/ ChangeRequirements
    \/ DeleteCorrectObject
    \/ Delete

SpecRequirements == Init /\ [][RequirementsNext]_vars

-----------------------------------------------------------------------------
(* context.py and the scoring loop on lists of their own: the lists are    *)
(* drawn at the start, each step applies one function to them.             *)

InitContext ==
    /\ scopes = {}
    /\ occurrences = {}
    /\ correct_objects = {}
    /\ resolutions = {}
    /\ next_id = [correct_object |-> 1]
    /\ last = Did("init")
    /\ inflight = [c \in Callers |-> Idle]
    /\ probe \in [did : {"none"}, stored : ProbeLists, given : ProbeLists,
                  value : {"a"}, candidate : {"a", "b"}, result : {<<>>}]

(* check_context_match(stored, given) *)
CheckContextMatch ==
    /\ probe.did = "none"
    /\ probe' = [probe EXCEPT
                    !.did = "check_context_match",
                    !.result = check_context_match(parse_context_elements(probe.stored),
                                                   parse_context_elements(probe.given))]
    /\ StoreUnchanged
    /\ UNCHANGED inflight

(* The coverage test of the intake: does stored cover given *)
CoverageTest ==
    /\ probe.did = "none"
    /\ probe' = [probe EXCEPT
                    !.did = "covers",
                    !.result = <<Covers(parse_context_elements(probe.stored),
                                        parse_context_elements(probe.given))>>]
    /\ StoreUnchanged
    /\ UNCHANGED inflight

(* parse_context_elements, to_dict of every element, parse_context_elements *)
RoundTrip ==
    /\ probe.did = "none"
    /\ probe' = [probe EXCEPT
                    !.did = "round trip",
                    !.result = parse_context_elements(
                                   to_dicts(parse_context_elements(probe.stored)))]
    /\ StoreUnchanged
    /\ UNCHANGED inflight

(* apply_correction on the empty store: the occurrence (value, stored) is  *)
(* created and scored against one candidate, the hypothesis (candidate,    *)
(* given)                                                                  *)
ScoreCandidate ==
    /\ probe.did = "none"
    /\ \E out \in apply_correction(
                      DB, probe.value, probe.stored, 0,
                      <<[value |-> probe.candidate, external_id |-> "x",
                         required_context_elements |-> probe.given]>>) :
           Commit(out.db, [op |-> "apply_correction", ret |-> out.ret,
                           occ |-> out.occ, path |-> out.path,
                           intake |-> out.intake, keep |-> out.keep,
                           hypotheses |-> 1])
    /\ probe' = [probe EXCEPT !.did = "apply_correction"]
    /\ UNCHANGED inflight

ContextNext ==
    \/ CheckContextMatch
    \/ CoverageTest
    \/ RoundTrip
    \/ ScoreCandidate

SpecContext == InitContext /\ [][ContextNext]_vars

-----------------------------------------------------------------------------
(* The properties *)

(* The Resolution rows of an occurrence with a given status *)
WithStatus(db, occurrence_id, status) ==
    {r \in db.resolutions : r.occurrence = occurrence_id /\ r.status = status}

(* The pair that identifies a Resolution row *)
Pairs(rows) == {<<r.occurrence, r.correct_object>> : r \in rows}

(* The coverage rule as it is written: for every input element the stored  *)
(* context has an element with the same key and the same value             *)
CoversByRule(stored, context) ==
    \A i \in 1..Len(context) :
        \E j \in 1..Len(stored) :
            Key(stored[j]) = Key(context[i]) /\ Val(stored[j]) = Val(context[i])

CoveringByRule(value, context, scope_id) ==
    {o \in occurrences :
        /\ o.value = value
        /\ o.scope = scope_id
        /\ CoversByRule(parse_context_elements(o.context), parse_context_elements(context))}

(* C1: in every state reachable by apply_correction calls and review       *)
(* actions, each Occurrence has at most one Resolution with status         *)
(* approved.                                                               *)
C1_AtMostOneApproved ==
    \A o \in occurrences : Cardinality(WithStatus(DB, o.id, APPROVED)) <= 1

(* An occurrence with an approved row beside a row that the review view put *)
(* back to pending                                                         *)
C1_Witness ==
    \E r, q \in resolutions :
        /\ r.occurrence = q.occurrence
        /\ r.status = APPROVED
        /\ q.status = PENDING /\ q.manual

(* C2: in every reachable state and for every input, a second              *)
(* apply_correction with the same inputs right after the first creates no  *)
(* new Occurrence, CorrectObject or Resolution row and returns the same    *)
(* CorrectObject as the first.                                             *)
C2_SecondCallIdempotent ==
    \A value \in Values, context \in Contexts, scope_id \in ScopeIds,
       hypotheses \in HypothesisLists :
        \A first \in apply_correction(DB, value, context, scope_id, hypotheses) :
            \A second \in apply_correction(first.db, value, context, scope_id, hypotheses) :
                /\ Ids(second.db.occurrences) \subseteq Ids(first.db.occurrences)
                /\ Ids(second.db.correct_objects) \subseteq Ids(first.db.correct_objects)
                /\ Pairs(second.db.resolutions) \subseteq Pairs(first.db.resolutions)
                /\ second.ret = first.ret

(* C3: once the Resolution (O, C) is invalid with manual = true, an        *)
(* apply_correction that resolves O does not return C, and leaves that row *)
(* as it is: not back to pending, not deleted.                             *)
C3_StickyInvalidRespected ==
    [][last'.op = "apply_correction" =>
          \A r \in resolutions :
              (r.status = INVALID /\ r.manual) =>
                  /\ \E q \in resolutions' :
                         SameRow(q, r) /\ q.status = r.status /\ q.manual = r.manual
                  /\ ~(last'.occ = r.occurrence /\ last'.ret = r.correct_object)]_vars

(* C4: after a CorrectObject of a scope is created, changed or deleted,    *)
(* is_cache_valid is false for every Occurrence of that scope whose cache  *)
(* the same call did not refresh.                                          *)
C4_WriteInvalidatesCache ==
    [][LET written == (correct_objects \ correct_objects')
                          \cup (correct_objects' \ correct_objects)
       IN  \A o \in occurrences' :
               (/\ o.scope \in {c.scope : c \in written}
                /\ ~(last'.op = "apply_correction" /\ last'.occ = o.id))
                   => ~is_cache_valid(DB', o)]_vars

(* C5: a call that works on an occurrence with an approved Resolution      *)
(* returns that row's CorrectObject, and a repeat of the call with the     *)
(* same arguments creates no Resolution row and leaves the occurrence's    *)
(* resolved_to and updated_at unchanged.                                   *)
C5_ApprovedFastPath ==
    \A value \in Values, context \in Contexts, scope_id \in ScopeIds,
       hypotheses \in HypothesisLists :
        \A first \in apply_correction(DB, value, context, scope_id, hypotheses) :
            (first.occ # None /\ WithStatus(first.db, first.occ, APPROVED) # {}) =>
                /\ first.ret \in {r.correct_object
                                     : r \in WithStatus(first.db, first.occ, APPROVED)}
                /\ \A again \in apply_correction(first.db, value, context, scope_id,
                                                 hypotheses) :
                       /\ again.ret = first.ret
                       /\ again.occ = first.occ
                       /\ again.db.resolutions = first.db.resolutions
                       /\ Occurrence(again.db, first.occ) = Occurrence(first.db, first.occ)

(* A call has just returned through the approved row of an occurrence it   *)
(* found in the store                                                      *)
C5_Witness ==
    /\ last.op = "apply_correction"
    /\ last.path = "approved"
    /\ last.intake = "found"
    /\ last.ret \in {r.correct_object : r \in WithStatus(DB, last.occ, APPROVED)}

(* C6: the pruning step never deletes a Resolution with manual = true and  *)
(* status = invalid, in any reachable state and for any keep set.          *)
C6_PruningKeepsStickyInvalid ==
    \A o \in occurrences, keep \in SUBSET Ids(correct_objects) :
        \A r \in resolutions :
            (r.manual /\ r.status = INVALID) =>
                r \in PruneStale(DB, o, keep).resolutions

(* A call has just pruned with a non-empty keep set that leaves out the    *)
(* CorrectObject of a manual invalid row of its occurrence                 *)
C6_Witness ==
    /\ last.op = "apply_correction"
    /\ last.keep # {}
    /\ \E r \in resolutions :
           /\ r.occurrence = last.occ
           /\ r.manual /\ r.status = INVALID
           /\ r.correct_object \notin last.keep

C8_CoveredInputIsCoalesced ==
    \A value \in Values, context \in Contexts, scope_id \in Ids(scopes) :
        CoveringByRule(value, context, scope_id) # {} =>
            \A found \in find_or_create_occurrence(
                             DB, value, parse_context_elements(context), scope_id) :
                /\ ~found.raised
                /\ found.db.occurrences = occurrences
                /\ found.occurrence \in CoveringByRule(value, context, scope_id)

(* C9: if no existing Occurrence of the scope with the same value covers   *)
(* the input context, the intake creates exactly one Occurrence, in that   *)
(* scope, with the input value and context, and leaves the others as they  *)
(* were.                                                                   *)
C9_UncoveredInputIsInserted ==
    \A value \in Values, context \in Contexts, scope_id \in Ids(scopes) :
        CoveringByRule(value, context, scope_id) = {} =>
            \A found \in find_or_create_occurrence(
                             DB, value, parse_context_elements(context), scope_id) :
                /\ ~found.raised
                /\ occurrences \subseteq found.db.occurrences
                /\ Cardinality(found.db.occurrences \ occurrences) = 1
                /\ \A o \in found.db.occurrences \ occurrences :
                       /\ o = found.occurrence
                       /\ o.value = value
                       /\ o.scope = scope_id
                       /\ o.context = to_dicts(parse_context_elements(context))

(* C10: in every reachable state no two Occurrences of one scope have the  *)
(* same value and structurally equal contexts.                             *)
C10_OccurrenceUniqueInScope ==
    \A o, p \in occurrences :
        (o.scope = p.scope /\ o.value = p.value /\ o.context = p.context) => o.id = p.id

(* The store holds two occurrences of one value in one scope, and the      *)
(* constraint has just refused an insert                                   *)
C10_Witness ==
    /\ last.path = "raised in intake"
    /\ \E o, p \in occurrences : o.id # p.id /\ o.scope = p.scope /\ o.value = p.value

(* C11: get_best_resolution(O) returns the approved Resolution of O if one *)
(* exists, otherwise a pending Resolution of O of maximal score among O's  *)
(* pending rows, otherwise null; it never returns an invalid row.          *)
C11_BestResolution ==
    \A o \in occurrences :
        LET best == get_best_resolution(DB, o.id)
            approved == WithStatus(DB, o.id, APPROVED)
            pending == WithStatus(DB, o.id, PENDING)
        IN  /\ approved # {} => (best # {} /\ best \subseteq approved)
            /\ (approved = {} /\ pending # {}) =>
                   /\ best # {}
                   /\ \A r \in best :
                          r \in pending /\ r.score = Max({q.score : q \in pending})
            /\ (approved = {} /\ pending = {}) => best = {}
            /\ \A r \in best : r.status # INVALID

(* An occurrence whose rows have all been invalidated: the result is null  *)
C11_Witness ==
    \E o \in occurrences :
        /\ WithStatus(DB, o.id, INVALID) # {}
        /\ WithStatus(DB, o.id, PENDING) = {}
        /\ WithStatus(DB, o.id, APPROVED) = {}
        /\ get_best_resolution(DB, o.id) = {}

(* C12: when apply_correction finds no approved row, no valid cache, no    *)
(* pending winner and no standing veto, it returns a CorrectObject of the  *)
(* scope with the occurrence's value and, as required_context_elements,    *)
(* the important elements of the occurrence's context, and afterwards a    *)
(* pending Resolution with manual = false links the occurrence to it.      *)
C12_Synthesis ==
    \A value \in Values, context \in Contexts, scope_id \in ScopeIds,
       hypotheses \in HypothesisLists :
        \A out \in apply_correction(DB, value, context, scope_id, hypotheses) :
            out.path \in {"synthesis", "raised in synthesis"} =>
                /\ out.ret \in Ids(out.db.correct_objects)
                /\ out.occ \in Ids(out.db.occurrences)
                /\ LET c == CorrectObject(out.db, out.ret)
                       o == Occurrence(out.db, out.occ)
                   IN  /\ c.scope = o.scope
                       /\ c.value = o.value
                       /\ c.required_context_elements =
                              to_dicts(SelectSeq(parse_context_elements(o.context),
                                                 Important))
                       /\ \E r \in out.db.resolutions :
                              /\ r.occurrence = o.id /\ r.correct_object = c.id
                              /\ r.status = PENDING /\ ~r.manual

(* The standing veto of an occurrence: an invalid Resolution to a          *)
(* CorrectObject with the occurrence's value and, as required context, the *)
(* important elements of the occurrence's context                          *)
StandingVeto(db, o) ==
    \E r \in WithStatus(db, o.id, INVALID) :
        \E c \in db.correct_objects :
            /\ c.id = r.correct_object
            /\ c.value = o.value
            /\ c.required_context_elements =
                   to_dicts(SelectSeq(parse_context_elements(o.context), Important))

C14_HypothesisValueStored ==
    \A value \in Values, context \in Contexts, scope_id \in ScopeIds,
       hypotheses \in HypothesisLists \cup {<<H3>>} :
        \A out \in apply_correction(DB, value, context, scope_id, hypotheses) :
            out.ret # Raised =>
                \A i \in 1..Len(hypotheses) :
                    \E c \in out.db.correct_objects :
                        /\ c.scope = get_or_create_default_scope(DB, scope_id).scope
                        /\ c.value = hypotheses[i].value

(* C14, amended: after such a call returns, for every hypothesis the       *)
(* call's scope holds a CorrectObject with the hypothesis's external_id,   *)
(* or one with the hypothesis's value and required context.                *)
C14_HypothesisObjectStored ==
    \A value \in Values, context \in Contexts, scope_id \in ScopeIds,
       hypotheses \in HypothesisLists \cup {<<H3>>} :
        \A out \in apply_correction(DB, value, context, scope_id, hypotheses) :
            out.ret # Raised =>
                \A i \in 1..Len(hypotheses) :
                    \E c \in out.db.correct_objects :
                        /\ c.scope = get_or_create_default_scope(DB, scope_id).scope
                        /\ \/ c.external_id = hypotheses[i].external_id
                           \/ /\ c.value = hypotheses[i].value
                              /\ c.required_context_elements =
                                     to_dicts(parse_context_elements(
                                         hypotheses[i].required_context_elements))

(* A call with a hypothesis has just returned another entity through the   *)
(* approved row or the cache, and the hypothesis's object is in the scope  *)
C14_Witness ==
    /\ last.op = "apply_correction"
    /\ last.hypotheses > 0
    /\ last.path \in {"approved", "cache"}
    /\ \E c \in correct_objects, o \in occurrences :
           /\ o.id = last.occ
           /\ c.scope = o.scope
           /\ c.external_id = H2.external_id
           /\ c.id # last.ret

(* The arguments find_or_create_correct_object is tried with *)
TriedValues == {"a", "b", "c"}
TriedRequired == {parse_context_elements(<<>>), parse_context_elements(<<E1>>),
                  parse_context_elements(<<E2>>)}

(* C15: find_or_create_correct_object called with an external_id that      *)
(* belongs to a CorrectObject of the scope returns that object, changes    *)
(* none of its fields whatever value and context the call passes, and      *)
(* creates no row.                                                         *)
C15_ExternalIdHitUnchanged ==
    \A c \in correct_objects, value \in TriedValues, required \in TriedRequired :
        c.external_id # NoneStr =>
            LET hit == find_or_create_correct_object(DB, value, c.scope, c.external_id,
                                                     required)
            IN  /\ ~hit.raised
                /\ hit.obj = c.id
                /\ hit.db = DB

(* A call whose hypothesis names the external_id of an object of the scope *)
(* has just returned, the object still with its own value                  *)
C15_Witness ==
    /\ last.op = "apply_correction"
    /\ last.hypotheses > 0
    /\ last.path = "cache"
    /\ \E c \in correct_objects, o \in occurrences :
           /\ o.id = last.occ
           /\ c.scope = o.scope
           /\ c.external_id = H2.external_id
           /\ c.value = H2.value

(* C16: find_or_create_correct_object without external_id is idempotent on *)
(* (scope, value, required_context_elements): the first call inserts one   *)
(* CorrectObject (or finds the one there is), and a later call with the    *)
(* same arguments returns the same object and inserts nothing.             *)
C16_FindOrCreateIdempotent ==
    \A scope \in scopes, value \in TriedValues, required \in TriedRequired :
        LET first == find_or_create_correct_object(DB, value, scope.id, NoneStr, required)
            second == find_or_create_correct_object(first.db, value, scope.id, NoneStr,
                                                    required)
        IN  /\ ~first.raised
            /\ first.obj \in Ids(first.db.correct_objects)
            /\ Cardinality(first.db.correct_objects \ correct_objects) <= 1
            /\ ~second.raised
            /\ second.obj = first.obj
            /\ second.db = first.db

(* C17: external_id is unique over all scopes when present, (value,        *)
(* required_context_elements, scope) is unique when it is absent, and      *)
(* find_or_create_correct_object without external_id succeeds in a scope,  *)
(* with an object of that scope, also when another scope holds an object   *)
(* with the same value and required context.                               *)
C17_CorrectObjectUniquePerScope ==
    /\ \A c, d \in correct_objects :
           (/\ c.id # d.id
            /\ c.external_id = d.external_id) =>
               /\ c.external_id = NoneStr
               /\ ~(/\ c.value = d.value
                    /\ c.required_context_elements = d.required_context_elements
                    /\ c.scope = d.scope)
    /\ \A scope \in scopes, c \in correct_objects :
           (c.external_id = NoneStr /\ c.scope # scope.id) =>
               LET made == find_or_create_correct_object(
                               DB, c.value, scope.id, NoneStr,
                               parse_context_elements(c.required_context_elements))
               IN  /\ ~made.raised
                   /\ \E d \in made.db.correct_objects :
                          d.id = made.obj /\ d.scope = scope.id

(* C18: apply_correction is atomic: when the call fails, at whatever step, *)
(* the store holds exactly the Scope, Occurrence, CorrectObject and        *)
(* Resolution rows and field values it held before the call.               *)
C18_FailedCallLeavesStore ==
    [][(last'.op = "apply_correction" /\ last'.ret = Raised) =>
           UNCHANGED <<scopes, occurrences, correct_objects, resolutions>>]_vars

(* A call has just failed in its last step, the synthesis, after its       *)
(* intake and its hypotheses                                               *)
C18_Witness ==
    /\ last.op = "apply_correction"
    /\ last.ret = Raised
    /\ last.path \in {"raised in synthesis", "raised in hypotheses"}
    /\ Cardinality(scopes) = MaxScopes

(* C19: when two review requests concurrently approve two different        *)
(* Resolutions of one Occurrence, under every interleaving exactly one     *)
(* approval succeeds and the occurrence ends with at most one approved     *)
(* Resolution.                                                             *)
C19_ConcurrentApprovals ==
    \A r1 \in inflight[1].instance, r2 \in inflight[2].instance :
        (/\ inflight[1].kind = "approve" /\ inflight[1].pc = "done"
         /\ inflight[2].kind = "approve" /\ inflight[2].pc = "done"
         /\ r1.occurrence = r2.occurrence
         /\ r1.correct_object # r2.correct_object) =>
            /\ inflight[1].failed # inflight[2].failed
            /\ Cardinality(WithStatus(DB, r1.occurrence, APPROVED)) <= 1

(* C20: when two concurrent apply_correction calls race to insert the same *)
(* new Occurrence (both lookups found no covering row), the losing call    *)
(* re-reads the row the winner inserted and proceeds: both calls complete  *)
(* and exactly one such row exists.                                        *)
C20_RacedInsertRecovered ==
    \A a1 \in inflight[1].args, a2 \in inflight[2].args :
        (/\ inflight[1].kind = "apply" /\ inflight[1].pc = "done"
         /\ inflight[2].kind = "apply" /\ inflight[2].pc = "done"
         /\ inflight[1].hits = {} /\ inflight[2].hits = {}
         /\ a1[1] = a2[1] /\ a1[2] = a2[2] /\ a1[3] = a2[3]
         /\ \A i, j \in 1..Len(a1[2]) : a1[2][i].key = a1[2][j].key => i = j) =>
            /\ ~inflight[1].failed
            /\ ~inflight[2].failed
            /\ Cardinality({o \in occurrences :
                               /\ o.value = a1[1]
                               /\ o.scope = a1[3]
                               /\ o.context = to_dicts(parse_context_elements(a1[2]))}) = 1

(* The row of a store with the pair of r *)
RowOf(db, r) == CHOOSE q \in db.resolutions : SameRow(q, r)

(* C21: a review action that sets a Resolution to approved (approve, or    *)
(* change_status to approved) puts every other approved Resolution of the  *)
(* same Occurrence back to pending and sets this row to approved; approve, *)
(* invalidate and change_status leave the target row with manual = true.   *)
C21_ReviewSetsStatus ==
    \A r \in resolutions :
        /\ \A action \in {"approve", "change_status"} :
               LET after == resolution_edit(DB, r, action, APPROVED)
               IN  /\ Pairs(after.resolutions) = Pairs(resolutions)
                   /\ RowOf(after, r).status = APPROVED
                   /\ RowOf(after, r).manual
                   /\ \A q \in resolutions :
                          (q.occurrence = r.occurrence /\ ~SameRow(q, r)) =>
                              RowOf(after, q).status =
                                  IF q.status = APPROVED THEN PENDING ELSE q.status
        /\ LET after == resolution_edit(DB, r, "invalidate", INVALID)
           IN  RowOf(after, r).status = INVALID /\ RowOf(after, r).manual
        /\ \A new_status \in {PENDING, APPROVED, INVALID} :
               LET after == resolution_edit(DB, r, "change_status", new_status)
               IN  RowOf(after, r).status = new_status /\ RowOf(after, r).manual

(* An occurrence with an approved row r and a row q that an earlier review *)
(* action put back to pending: approving q puts r back to pending          *)
C21_Witness ==
    \E r, q \in resolutions :
        /\ r.occurrence = q.occurrence
        /\ r.status = APPROVED /\ r.manual
        /\ q.status = PENDING /\ q.manual
        /\ RowOf(resolution_edit(DB, q, "approve", APPROVED), r).status = PENDING
        /\ RowOf(resolution_edit(DB, q, "approve", APPROVED), q).status = APPROVED

(* C22: over any sequence of operations the status of a Resolution changes *)
(* only along pending->approved, pending->invalid, approved->pending and   *)
(* invalid->pending: no step takes a row from approved to invalid or from  *)
(* invalid to approved.                                                    *)
C22_StatusTransitions ==
    [][\A r \in resolutions, q \in resolutions' :
           SameRow(r, q) =>
               <<r.status, q.status>> \notin {<<APPROVED, INVALID>>, <<INVALID, APPROVED>>}]_vars

(* C23: create_resolution is idempotent on (occurrence, correct_object): a *)
(* row of the pair, in any status, is returned as it is and no row is      *)
(* added; otherwise one row is created, pending, manual = false, in the    *)
(* occurrence's scope. No state holds two rows of one pair.                *)
C23_CreateResolutionIdempotent ==
    /\ \A r, q \in resolutions : SameRow(r, q) => r = q
    /\ \A o \in occurrences, c \in correct_objects, score \in {0, 11} :
           LET made == create_resolution(DB, o, c.id, score, FALSE, PENDING)
               found == {r \in resolutions :
                             r.occurrence = o.id /\ r.correct_object = c.id}
           IN  IF found # {}
               THEN made.db = DB /\ made.res \in found
               ELSE /\ made.db = [DB EXCEPT !.resolutions = @ \cup {made.res}]
                    /\ made.res.occurrence = o.id
                    /\ made.res.correct_object = c.id
                    /\ made.res.status = PENDING
                    /\ ~made.res.manual
                    /\ made.res.score = score
                    /\ made.res.scope = o.scope

(* The scoring loop of the last call met a row that a review action had    *)
(* written, and the row is still manual                                    *)
C23_Witness ==
    /\ last.op = "apply_correction"
    /\ last.path = "winner"
    /\ \E r \in resolutions :
           /\ r.occurrence = last.occ
           /\ r.correct_object \in last.keep
           /\ r.manual

(* C28: with scope_id = 0 apply_correction works in the Scope with id 1,   *)
(* which it creates if it is absent; with a nonzero scope_id that names no *)
(* Scope the call fails and writes no Occurrence, CorrectObject or         *)
(* Resolution.                                                             *)
C28_ScopeResolution ==
    \A value \in Values, context \in Contexts, hypotheses \in HypothesisLists :
        /\ \A out \in apply_correction(DB, value, context, 0, hypotheses) :
               out.ret # Raised =>
                   /\ Occurrence(out.db, out.occ).scope = 1
                   /\ Ids(out.db.scopes) = Ids(scopes) \cup {1}
        /\ \A scope_id \in 1..(MaxScopes + 1) :
               scope_id \notin Ids(scopes) =>
                   \A out \in apply_correction(DB, value, context, scope_id, hypotheses) :
                       /\ out.ret = Raised
                       /\ out.db = DB

(* A call has just failed for a scope_id that names no Scope, in a store   *)
(* where an earlier call with scope_id = 0 works in the Scope with id 1    *)
C28_Witness ==
    /\ last.op = "apply_correction"
    /\ last.path = "raised for the scope"
    /\ \E o \in occurrences : o.scope = 1
    /\ MaxScopes \notin Ids(scopes)

(* The lookup of a key as the first element with that key, in input order  *)
FirstIndex(elements, k) ==
    LET hits == {i \in 1..Len(elements) : Key(elements[i]) = k}
    IN  IF hits = {} THEN 0 ELSE CHOOSE i \in hits : \A j \in hits : i <= j

(* A requirement fails the match: its key is absent and absence is not     *)
(* allowed, or the key is present with another value and it is important   *)
FailsByRule(context, required) ==
    LET at == FirstIndex(context, Key(required))
    IN  IF at = 0 THEN ~AbsenceAllowed(required)
        ELSE Val(context[at]) # Val(required) /\ Important(required)

(* The sum of the weights of the requirements, from the i-th on, whose key *)
(* is present with an equal value                                          *)
RECURSIVE ContextScoreByRule(_, _, _)
ContextScoreByRule(context, required_elements, i) ==
    IF i > Len(required_elements) THEN 0
    ELSE LET at == FirstIndex(context, Key(required_elements[i]))
         IN  (IF at # 0 /\ Val(context[at]) = Val(required_elements[i])
              THEN Weight(required_elements[i]) ELSE 0)
             + ContextScoreByRule(context, required_elements, i + 1)

(* C24: every pending Resolution that the scoring loop creates for the     *)
(* occurrence O and the candidate c has score 10 * sim(O.value, c.value) + *)
(* contextScore, sim being 1 for equal values and contextScore the sum of  *)
(* the weights of c's required elements whose key is present in O's        *)
(* context with an equal value.                                            *)
C24_ScoreFormula ==
    (probe.did = "apply_correction" /\ last.ret # Raised) =>
        \A r \in resolutions :
            r.correct_object \in last.keep =>
                LET o == Occurrence(DB, r.occurrence)
                    c == CorrectObject(DB, r.correct_object)
                IN  r.score =
                        10 * (IF o.value = c.value THEN 1
                              ELSE JaroWinkler_normalized_similarity(o.value, c.value))
                        + ContextScoreByRule(
                              parse_context_elements(o.context),
                              parse_context_elements(c.required_context_elements), 1)

(* C25: check_context_match, for every context list and requirement list:  *)
(* a requirement whose key is absent fails the match unless absence is     *)
(* allowed (then it adds nothing); a key present with an equal value adds  *)
(* the weight; with another value it fails the match if important and adds *)
(* nothing otherwise. With no requirement the result is (true, 0).         *)
C25_MatchRule ==
    probe.did = "check_context_match" =>
        LET context == parse_context_elements(probe.stored)
            required_elements == parse_context_elements(probe.given)
            matches == \A i \in 1..Len(required_elements) :
                           ~FailsByRule(context, required_elements[i])
        IN  /\ probe.result[1] = matches
            /\ matches =>
                   probe.result[2] = ContextScoreByRule(context, required_elements, 1)
            /\ required_elements = <<>> => probe.result = <<TRUE, 0>>

(* The elements that are the first of their key, in input order *)
RECURSIVE FirstOfEachKeyFrom(_, _)
FirstOfEachKeyFrom(elements, i) ==
    IF i > Len(elements) THEN <<>>
    ELSE (IF FirstIndex(elements, Key(elements[i])) = i THEN <<elements[i]>> ELSE <<>>)
         \o FirstOfEachKeyFrom(elements, i + 1)

(* C26: when a context list holds several elements with one key, the match *)
(* predicate and the coverage rule look the key up as its first element in *)
(* input order: the later elements of a key do not change the result.      *)
C26_FirstOfDuplicateKeys ==
    LET stored == parse_context_elements(probe.stored)
        given == parse_context_elements(probe.given)
    IN  /\ probe.did = "check_context_match" =>
               probe.result = check_context_match(FirstOfEachKeyFrom(stored, 1), given)
        /\ probe.did = "covers" =>
               probe.result = <<Covers(FirstOfEachKeyFrom(stored, 1), given)>>

(* C30: from_dict(e.to_dict()) has the key, value, important, weight and   *)
(* absence_allowed of e; from_dict gives a missing optional key its        *)
(* default (important false, weight 1, absence_allowed false) and ignores  *)
(* the keys it does not know.                                              *)
C30_RoundTrip ==
    probe.did = "round trip" =>
        /\ Len(probe.result) = Len(probe.stored)
        /\ \A i \in 1..Len(probe.stored) :
               LET data == probe.stored[i]
                   e == from_dict(data)
               IN  /\ probe.result[i] = e
                   /\ Key(e) = data.key
                   /\ Val(e) = data.value
                   /\ Important(e) =
                          IF "important" \in DOMAIN data THEN data.important ELSE FALSE
                   /\ Weight(e) = IF "weight" \in DOMAIN data THEN data.weight ELSE 1
                   /\ AbsenceAllowed(e) =
                          IF "absence_allowed" \in DOMAIN data THEN data.absence_allowed
                          ELSE FALSE

(* A list with an element that is important, has no weight and has a key   *)
(* from_dict does not know has gone through to_dict and back               *)
C30_Witness ==
    /\ probe.did = "round trip"
    /\ \E i \in 1..Len(probe.stored) :
           /\ "note" \in DOMAIN probe.stored[i]
           /\ "weight" \notin DOMAIN probe.stored[i]
           /\ probe.result[i] = ContextElement("m", "2", TRUE, 1, TRUE)

(* C27: when an Occurrence has no approved Resolution and several pending  *)
(* Resolutions share the maximum score, get_best_resolution returns the    *)
(* one with the most recent updated_at, and among those the one with the   *)
(* highest id.                                                             *)
C27_TieBreak ==
    \A o \in occurrences :
        LET pending == WithStatus(DB, o.id, PENDING)
            top == {r \in pending : r.score = Max({q.score : q \in pending})}
        IN  (WithStatus(DB, o.id, APPROVED) = {} /\ Cardinality(top) > 1) =>
                \A r \in get_best_resolution(DB, o.id) :
                    \A q \in top :
                        \/ q.updated_at < r.updated_at
                        \/ q.updated_at = r.updated_at /\ q.id <= r.id

(* C29: get_conflicting_resolutions(scope) returns Resolutions only of     *)
(* Occurrences that have at least two pending Resolutions and no approved  *)
(* Resolution.                                                             *)
C29_ConflictsHaveNoApproved ==
    \A scope \in scopes :
        \A r \in get_conflicting_resolutions(DB, scope.id) :
            /\ Cardinality(WithStatus(DB, r.occurrence, PENDING)) >= 2
            /\ WithStatus(DB, r.occurrence, APPROVED) = {}

(* C31: the scoring loop filters the candidates by the match predicate     *)
(* applied to the context of the Occurrence the call works on (the stored  *)
(* context, when the input was coalesced onto an existing Occurrence), the *)
(* context the score is computed from: the candidates the loop kept are    *)
(* those of the scope that match the stored context and have no invalid    *)
(* row.                                                                    *)
C31_FilterOnStoredContext ==
    (last.op = "apply_correction" /\ last.path = "winner") =>
        LET o == Occurrence(DB, last.occ)
        IN  \A c \in correct_objects :
                c.id \in last.keep <=>
                    /\ c.scope = o.scope
                    /\ check_context_match(
                           parse_context_elements(o.context),
                           parse_context_elements(c.required_context_elements))[1]
                    /\ ~\E r \in WithStatus(DB, o.id, INVALID) : r.correct_object = c.id

(* C32: when apply_correction returns an entity E through the winner or    *)
(* the synthesis, E is the CorrectObject of get_best_resolution of the     *)
(* occurrence, and after the call the occurrence's resolved_to is E and    *)
(* is_cache_valid holds for it.                                            *)
C32_ReturnedIsBestAndCached ==
    (last.op = "apply_correction" /\ last.path \in {"winner", "synthesis"}) =>
        /\ \E r \in get_best_resolution(DB, last.occ) : r.correct_object = last.ret
        /\ Occurrence(DB, last.occ).resolved_to = last.ret
        /\ is_cache_valid(DB, Occurrence(DB, last.occ))

(* A call has just chosen between two pending rows of an occurrence it     *)
(* found in the store, and the occurrence is resolved to what it returned  *)
C32_Witness ==
    /\ last.op = "apply_correction"
    /\ last.path = "winner"
    /\ last.intake = "found"
    /\ Cardinality(WithStatus(DB, last.occ, PENDING)) >= 2
    /\ Occurrence(DB, last.occ).resolved_to = last.ret

(* C33: after a call whose scoring loop created or reaffirmed at least one *)
(* Resolution, every Resolution of the occurrence whose CorrectObject is   *)
(* outside the keep set is approved or (invalid and manual); the other     *)
(* rows outside the keep set are deleted; no row inside the keep set is    *)
(* deleted.                                                                *)
C33_PruningOutsideKeepSet ==
    \A value \in Values, context \in Contexts, scope_id \in ScopeIds,
       hypotheses \in HypothesisLists :
        \A out \in apply_correction(DB, value, context, scope_id, hypotheses) :
            out.keep # {} =>
                /\ \A r \in out.db.resolutions :
                       (r.occurrence = out.occ /\ r.correct_object \notin out.keep) =>
                           \/ r.status = APPROVED
                           \/ r.status = INVALID /\ r.manual
                /\ \A c \in out.keep : <<out.occ, c>> \in Pairs(out.db.resolutions)
                /\ \A r \in resolutions :
                       (/\ r.occurrence = out.occ
                        /\ \/ r.correct_object \in out.keep
                           \/ r.status = APPROVED
                           \/ r.status = INVALID /\ r.manual) =>
                           <<r.occurrence, r.correct_object>> \in Pairs(out.db.resolutions)

(* A state in which a call keeps a row of an occurrence and deletes        *)
(* another row of it                                                       *)
C33_Witness ==
    \E value \in Values, context \in Contexts, scope_id \in ScopeIds,
       hypotheses \in HypothesisLists :
        \E out \in apply_correction(DB, value, context, scope_id, hypotheses) :
            /\ out.keep # {}
            /\ \E r \in resolutions :
                   /\ r.occurrence = out.occ
                   /\ <<r.occurrence, r.correct_object>> \notin Pairs(out.db.resolutions)

(* C34: apply_correction changes no value, context or scope of an existing *)
(* Occurrence, no field of an existing CorrectObject, and no status, score *)
(* or manual flag of an existing Resolution.                               *)
C34_FrameOfApplyCorrection ==
    \A value \in Values, context \in Contexts, scope_id \in ScopeIds,
       hypotheses \in HypothesisLists :
        \A out \in apply_correction(DB, value, context, scope_id, hypotheses) :
            /\ \A o \in occurrences :
                   \E p \in out.db.occurrences :
                       /\ p.id = o.id
                       /\ p.value = o.value
                       /\ p.context = o.context
                       /\ p.scope = o.scope
            /\ correct_objects \subseteq out.db.correct_objects
            /\ \A r \in resolutions, q \in out.db.resolutions :
                   SameRow(r, q) =>
                       q.status = r.status /\ q.score = r.score /\ q.manual = r.manual

(* A state in which a call resolves an unresolved occurrence of the store, *)
(* reaffirms a row of it and creates another                               *)
C34_Witness ==
    \E value \in Values, context \in Contexts, scope_id \in ScopeIds,
       hypotheses \in HypothesisLists :
        \E out \in apply_correction(DB, value, context, scope_id, hypotheses) :
            /\ out.path = "winner"
            /\ \E o \in occurrences : o.id = out.occ /\ o.resolved_to = None
            /\ \E r \in resolutions :
                   r.occurrence = out.occ /\ r.correct_object \in out.keep
            /\ \E c \in out.keep : <<out.occ, c>> \notin Pairs(resolutions)

(* C35: whenever apply_correction returns an entity through the cache or   *)
(* the winner, the occurrence's context satisfies the match predicate      *)
(* against the entity's current required_context_elements, also after the  *)
(* requirements were changed and when the scoring loop matched no          *)
(* candidate.                                                              *)
C35_ReturnedEntityMatches ==
    (last.op = "apply_correction" /\ last.path \in {"cache", "winner"}) =>
        \E c \in correct_objects :
            /\ c.id = last.ret
            /\ check_context_match(
                   parse_context_elements(Occurrence(DB, last.occ).context),
                   parse_context_elements(c.required_context_elements))[1]

(* C36: find_or_create_correct_object called with an external_id returns a *)
(* CorrectObject with that external_id, in every reachable state, also     *)
(* when the scope holds an object with the same value and required context *)
(* and no external_id.                                                     *)
C36_ReturnedHasExternalId ==
    \A scope \in scopes, value \in TriedValues, required \in TriedRequired,
       external_id \in {"x", "y"} :
        LET made == find_or_create_correct_object(DB, value, scope.id, external_id,
                                                  required)
        IN  ~made.raised =>
                \E c \in made.db.correct_objects :
                    c.id = made.obj /\ c.external_id = external_id

(* C37: in every state reachable through apply_correction and the review   *)
(* actions, the scope of each Resolution is the scope of its Occurrence    *)
(* and of its CorrectObject, and each non-null resolved_to is a            *)
(* CorrectObject of the Occurrence's scope.                                *)
C37_ScopesAgree ==
    /\ \A r \in resolutions :
           /\ \E o \in occurrences : o.id = r.occurrence /\ o.scope = r.scope
           /\ \E c \in correct_objects : c.id = r.correct_object /\ c.scope = r.scope
    /\ \A o \in occurrences :
           o.resolved_to # None =>
               \E c \in correct_objects : c.id = o.resolved_to /\ c.scope = o.scope

(* Two scopes, each with a resolved occurrence and a Resolution *)
C37_Witness ==
    \E r, q \in resolutions :
        /\ r.scope # q.scope
        /\ Occurrence(DB, r.occurrence).resolved_to # None
        /\ Occurrence(DB, q.occurrence).resolved_to # None

====
